---- MODULE Spec2Model ----
(***************************************************************************)
(* A model of the MySQL adapter of node-norm (src/index.js, class Mysql).  *)
(*                                                                         *)
(* Part 1 models the connection lifecycle and the asynchronous operations  *)
(* of one adapter instance (specification Spec).  The JavaScript event     *)
(* loop is modelled as it schedules: a continuation of an await on a       *)
(* settled promise is a microtask and runs before any I/O event (a         *)
(* resolved connection, a settled wire call, an 'error' event), which is   *)
(* a macrotask.  The wire client (mysql2) is the environment: it resolves  *)
(* connections, settles calls and emits 'error' events.  A connection      *)
(* attempt that is rejected is not modelled.                               *)
(*                                                                         *)
(* Part 2 models the statement builders as operators over query            *)
(* descriptors (specifications SpecWhere and SpecStmt).                    *)
(***************************************************************************)
EXTENDS Integers, Sequences, FiniteSets, TLC

VARIABLES
  connPromise,  \* this.connPromise: 0 is undefined, else the handle it resolves to
  handle,       \* the connections the wire client has been asked to create
  ops,          \* the calls made on the adapter, each an async function
  fault,        \* the last fault nobody caught (uncaught exception or rejection)
  shutdown,     \* history: "open", "closed" once end() has cleared connPromise,
                \* "ended" once an end() call has completed
  criteria,     \* SpecWhere: the criteria mapping handed to getWhere
  where,        \* SpecWhere: what getWhere returned
  query,        \* SpecStmt: the query descriptor
  stmt          \* SpecStmt: the statement a builder handed to execute

vars == <<connPromise, handle, ops, fault, shutdown, criteria, where, query, stmt>>

lifeVars == <<connPromise, handle, ops, fault, shutdown>>
whereVars == <<criteria, where>>
stmtVars == <<query, stmt>>

-----------------------------------------------------------------------------
(* Bounds *)

MaxHandles == 3
MaxOps == 1
MaxRows == 2

Handles == 1..MaxHandles
OpIds == 1..MaxOps

-----------------------------------------------------------------------------
(* Part 1: connection lifecycle *)

CONNECTION_LOST == "PROTOCOL_CONNECTION_LOST"
ErrorCodes == {CONNECTION_LOST, "ER_LOCK_DEADLOCK", "ECONNRESET"}

ConnectionEnded == "Connection already ended"
GetDbNotAFunction == "TypeError: this.getDb is not a function"
OnErrorUndefined == "TypeError: Cannot read property 'bind' of undefined"
StatementError == "StatementError"

NoHandle == [st |-> "none", lost |-> FALSE, observer |-> "none", by |-> "none"]
NoFault == [code |-> "none", via |-> "none"]
\* rows: how many of an insert's row tasks await the connection, have their
\* execute in flight, have succeeded, have failed.
NoRows == [waiting |-> 0, inflight |-> 0, ok |-> 0, failed |-> 0]
IdleOp == [kind |-> "none", pc |-> "idle", conn |-> 0, err |-> "", execs |-> 0,
           rows |-> NoRows]

\* mysql2.createConnection(...): the next handle, its promise pending.
createConnection(h, creator) ==
  [handle EXCEPT ![h] = [st |-> "connecting", lost |-> FALSE,
                         observer |-> "none", by |-> creator]]

FreeHandles == {h \in Handles : handle[h].st = "none"}
NextHandle == CHOOSE h \in FreeHandles : \A g \in FreeHandles : h <= g

\* getConnection(): throws when connPromise is falsy, else returns it.
getConnection ==
  IF connPromise = 0
    THEN [threw |-> TRUE, err |-> ConnectionEnded, conn |-> 0]
    ELSE [threw |-> FALSE, err |-> "", conn |-> connPromise]

\* A promise of a handle is settled once the wire client has connected it.
Resolved(h) == handle[h].st \in {"open", "ended"}
\* The wire client can serve calls on a handle that is connected and not severed.
Usable(h) == handle[h].st = "open" /\ ~handle[h].lost
\* A handle is live from createConnection until reported lost or ended.
Live(h) == handle[h].st \in {"connecting", "open"} /\ ~handle[h].lost

\* Some continuation of an await on a settled promise is queued.
MicrotaskReady ==
  \E o \in OpIds :
    /\ ops[o].conn # 0
    /\ Resolved(ops[o].conn)
    /\ \/ ops[o].pc = "awaitConn"
       \/ ops[o].rows.waiting > 0

\* A slot holds one call; it is free again once the call has settled and
\* nothing it started is still pending.  Callers take the lowest free slot.
Free(o) ==
  /\ ops[o].pc \in {"idle", "done", "failed"}
  /\ ops[o].rows.waiting + ops[o].rows.inflight = 0

CanCall(o) ==
  /\ Free(o)
  /\ \A p \in OpIds : p < o => ~Free(p)

Init ==
  /\ connPromise = 1
  /\ handle = [h \in Handles |->
                 IF h = 1 THEN [st |-> "connecting", lost |-> FALSE,
                                observer |-> "none", by |-> "constructor"]
                          ELSE NoHandle]
  /\ ops = [o \in OpIds |-> IdleOp]
  /\ fault = NoFault
  /\ shutdown = "open"
  /\ criteria = <<>>
  /\ where = <<>>
  /\ query = <<>>
  /\ stmt = <<>>

\* The wire client connects handle h; the .then callback registers the observer.
\* The constructor registers this.onDbError; onDbError registers this.onError,
\* which the class does not define, so bind throws inside the callback.
ConnectResolve(h) ==
  /\ ~MicrotaskReady
  /\ handle[h].st = "connecting"
  /\ IF handle[h].by = "constructor"
       THEN /\ handle' = [handle EXCEPT ![h].st = "open",
                                        ![h].observer = "onDbError"]
            /\ fault' = fault
       ELSE /\ handle' = [handle EXCEPT ![h].st = "open"]
            /\ fault' = [code |-> OnErrorUndefined, via |-> "then"]
  /\ UNCHANGED <<connPromise, ops, shutdown, whereVars, stmtVars>>

\* A faulty variant of onDbError: it reconnects whatever the error's class.
onDbErrorAnyCode(h, code) ==
  /\ FreeHandles # {}
  /\ handle' = [createConnection(NextHandle, "onDbError") EXCEPT ![h].lost = TRUE]
  /\ connPromise' = NextHandle
  /\ fault' = fault

\* onDbError(err), called by the emitter of handle h.
onDbError(h, code) ==
  IF code = CONNECTION_LOST
    THEN /\ FreeHandles # {}
         /\ handle' = [createConnection(NextHandle, "onDbError")
                         EXCEPT ![h].lost = TRUE]
         /\ connPromise' = NextHandle
         /\ fault' = fault
    ELSE /\ handle' = handle
         /\ connPromise' = connPromise
         /\ fault' = [code |-> code, via |-> "onDbError"]

\* The wire client emits 'error' on handle h.  With no listener the emitter
\* itself throws the error.  A handle reports the loss of its link once.
WireError(h, code) ==
  /\ ~MicrotaskReady
  /\ Resolved(h)
  /\ code = CONNECTION_LOST => ~handle[h].lost
  /\ IF handle[h].observer = "onDbError"
       THEN onDbError(h, code)
       ELSE /\ handle' = [handle EXCEPT
                            ![h].lost = (code = CONNECTION_LOST) \/ handle[h].lost]
            /\ connPromise' = connPromise
            /\ fault' = [code |-> code, via |-> "unhandled"]
  /\ UNCHANGED <<ops, shutdown, whereVars, stmtVars>>

\* The synchronous part of an async function that starts with
\* `await this.getConnection()`: a throw becomes the call's rejection.
AwaitConnection(o, kind) ==
  /\ CanCall(o)
  /\ LET g == getConnection IN
       ops' = [ops EXCEPT ![o] =
                 IF g.threw
                   THEN [IdleOp EXCEPT !.kind = kind, !.pc = "failed", !.err = g.err]
                   ELSE [IdleOp EXCEPT !.kind = kind, !.pc = "awaitConn",
                                       !.conn = g.conn]]
  /\ UNCHANGED <<connPromise, handle, fault, shutdown, whereVars, stmtVars>>

\* load, update and delete build their statement (Part 2) and call dbQuery;
\* _begin, _commit and _rollback forward one call to the connection.  Within
\* each group the calls differ only in what they send, so a call records its
\* group.
load(o) == AwaitConnection(o, "dbQuery")
update(o) == AwaitConnection(o, "dbQuery")
delete(o) == AwaitConnection(o, "dbQuery")
_begin(o) == AwaitConnection(o, "transaction")
_commit(o) == AwaitConnection(o, "transaction")
_rollback(o) == AwaitConnection(o, "transaction")
end(o) == AwaitConnection(o, "end")

\* count(): builds its statement, then calls this.getDb(), which the class
\* does not define; the call is rejected before any connection is asked for.
count(o) ==
  /\ CanCall(o)
  /\ ops' = [ops EXCEPT ![o] = [IdleOp EXCEPT !.kind = "count", !.pc = "failed",
                                              !.err = GetDbNotAFunction]]
  /\ UNCHANGED <<connPromise, handle, fault, shutdown, whereVars, stmtVars>>

\* A variant of PromiseAll that waits: it settles only once every row promise has settled.
PromiseAllSettled(rows) ==
  IF rows.waiting + rows.inflight > 0 THEN "inflight"
  ELSE IF rows.failed > 0 THEN "failed"
  ELSE "done"

\* Promise.all over the row promises: rejected as soon as one is rejected,
\* fulfilled when all are fulfilled.
PromiseAll(rows) ==
  IF rows.failed > 0 THEN "failed"
  ELSE IF rows.waiting + rows.inflight = 0 THEN "done"
  ELSE "inflight"

\* insert(query) with n rows: rows.map calls dbQuery for every row before the
\* first await yields, so every row sees the same connPromise.
insert(o, n) ==
  /\ CanCall(o)
  /\ LET g == getConnection
         rows == IF g.threw THEN [NoRows EXCEPT !.failed = n]
                            ELSE [NoRows EXCEPT !.waiting = n]
     IN ops' = [ops EXCEPT ![o] =
                  [IdleOp EXCEPT !.kind = "insert", !.pc = PromiseAll(rows),
                                 !.conn = IF n > 0 THEN g.conn ELSE 0,
                                 !.rows = rows,
                                 !.err = IF g.threw /\ n > 0 THEN g.err ELSE ""]]
  /\ UNCHANGED <<connPromise, handle, fault, shutdown, whereVars, stmtVars>>

\* dbQuery resumes with the connection and issues execute (or the transaction
\* call) on it.
dbQueryResume(o) ==
  /\ ops[o].pc = "awaitConn"
  /\ ops[o].kind # "end"
  /\ Resolved(ops[o].conn)
  /\ ops' = [ops EXCEPT ![o].pc = "inflight", ![o].execs = @ + 1]
  /\ UNCHANGED <<connPromise, handle, fault, shutdown, whereVars, stmtVars>>

\* end() resumes: this.connPromise = undefined; await conn.end().
endResume(o) ==
  /\ ops[o].pc = "awaitConn"
  /\ ops[o].kind = "end"
  /\ Resolved(ops[o].conn)
  /\ connPromise' = 0
  /\ handle' = [handle EXCEPT ![ops[o].conn].st = "ended"]
  /\ ops' = [ops EXCEPT ![o].pc = "inflight"]
  /\ shutdown' = IF shutdown = "open" THEN "closed" ELSE shutdown
  /\ UNCHANGED <<fault, whereVars, stmtVars>>

\* The dbQuery of one waiting row resumes and issues its execute.
insertRowResume(o) ==
  /\ ops[o].rows.waiting > 0
  /\ Resolved(ops[o].conn)
  /\ ops' = [ops EXCEPT ![o].rows.waiting = @ - 1, ![o].rows.inflight = @ + 1,
                        ![o].execs = @ + 1]
  /\ UNCHANGED <<connPromise, handle, fault, shutdown, whereVars, stmtVars>>

\* The wire client settles the call of o; it succeeds only on a usable handle
\* (conn.end() may succeed on any).
Settle(o, ok) ==
  /\ ~MicrotaskReady
  /\ ops[o].pc = "inflight"
  /\ ops[o].kind # "insert"
  /\ ok => (ops[o].kind = "end" \/ Usable(ops[o].conn))
  /\ ops' = [ops EXCEPT ![o].pc = IF ok THEN "done" ELSE "failed",
                        ![o].conn = 0,
                        ![o].err = IF ok THEN "" ELSE StatementError]
  /\ shutdown' = IF ok /\ ops[o].kind = "end" THEN "ended" ELSE shutdown
  /\ UNCHANGED <<connPromise, handle, fault, whereVars, stmtVars>>

\* The wire client settles the execute of one row.  The row's continuation
\* (row.id, changes, callback) runs even when insert() has already failed.
SettleRow(o, ok) ==
  /\ ~MicrotaskReady
  /\ ops[o].kind = "insert"
  /\ ops[o].rows.inflight > 0
  /\ ok => Usable(ops[o].conn)
  /\ LET rows == [ops[o].rows EXCEPT !.inflight = @ - 1,
                                     !.ok = IF ok THEN @ + 1 ELSE @,
                                     !.failed = IF ok THEN @ ELSE @ + 1] IN
       ops' = [ops EXCEPT
                 ![o].rows = rows,
                 ![o].pc = IF @ = "inflight" THEN PromiseAll(rows) ELSE @,
                 ![o].conn = IF rows.inflight = 0 THEN 0 ELSE @,
                 ![o].err = IF ~ok /\ ops[o].pc = "inflight"
                              THEN StatementError ELSE @]
  /\ UNCHANGED <<connPromise, handle, fault, shutdown, whereVars, stmtVars>>

Next ==
  \/ \E h \in Handles : ConnectResolve(h)
  \/ \E h \in Handles, code \in ErrorCodes : WireError(h, code)
  \/ \E o \in OpIds : load(o)
  \/ \E o \in OpIds : update(o)
  \/ \E o \in OpIds : delete(o)
  \/ \E o \in OpIds : _begin(o)
  \/ \E o \in OpIds : _commit(o)
  \/ \E o \in OpIds : _rollback(o)
  \/ \E o \in OpIds : end(o)
  \/ \E o \in OpIds : count(o)
  \/ \E o \in OpIds, n \in 0..MaxRows : insert(o, n)
  \/ \E o \in OpIds : dbQueryResume(o)
  \/ \E o \in OpIds : endResume(o)
  \/ \E o \in OpIds : insertRowResume(o)
  \/ \E o \in OpIds, ok \in BOOLEAN : Settle(o, ok)
  \/ \E o \in OpIds, ok \in BOOLEAN : SettleRow(o, ok)

Spec == Init /\ [][Next]_vars

-----------------------------------------------------------------------------
(* Part 2: the statement builders                                          *)
(*                                                                         *)
(* A JavaScript string is a sequence of fragments whose concatenation is   *)
(* the string (Text); a key or an identifier is a sequence of characters.  *)
(* A placeholder is the fragment "?".  A mapping is the sequence of its    *)
(* <<key, value>> pairs in iteration order.  Bound values are strings.     *)

MaxCrit == 3
MaxOr == 2

Undefined == "undefined"

RECURSIVE Text(_)
Text(rope) == IF rope = <<>> THEN "" ELSE rope[1] \o Text(Tail(rope))

\* Array.prototype.join over strings.
RECURSIVE Join(_, _)
Join(parts, sep) ==
  IF parts = <<>> THEN <<>>
  ELSE IF Len(parts) = 1 THEN parts[1]
  ELSE parts[1] \o sep \o Join(Tail(parts), sep)

\* String.prototype.split(sep) for a one-character separator.
RECURSIVE split(_, _)
split(s, sep) ==
  IF \A i \in 1..Len(s) : s[i] # sep
    THEN <<s>>
    ELSE LET i == CHOOSE k \in 1..Len(s) :
                    s[k] = sep /\ \A j \in 1..(k - 1) : s[j] # sep
         IN <<SubSeq(s, 1, i - 1)>> \o split(SubSeq(s, i + 1, Len(s)), sep)

\* let [ field, operator = 'eq' ] = key.split('!')
FieldOf(key) == split(key, "!")[1]
OperatorOf(key) ==
  LET parts == split(key, "!") IN
    IF Len(parts) >= 2 THEN Text(parts[2]) ELSE "eq"

OPERATORS ==
  [eq |-> "=", gt |-> ">", lt |-> "<", gte |-> ">=", lte |-> "<=", like |-> "like"]

\* `${OPERATORS[operator]}`: a missing property prints as undefined.
OperatorToken(operator) ==
  IF operator \in DOMAIN OPERATORS THEN OPERATORS[operator] ELSE Undefined

\* The backquote character, which a TLA+ string cannot hold, is written '.
Backquote == "'"

\* mysql2.escapeId: backquotes doubled, a dot closes and reopens the quoting.
RECURSIVE escapeIdChars(_)
escapeIdChars(id) ==
  IF id = <<>> THEN <<>>
  ELSE (IF id[1] = Backquote THEN <<Backquote \o Backquote>>
        ELSE IF id[1] = "." THEN <<Backquote \o "." \o Backquote>>
        ELSE <<id[1]>>) \o escapeIdChars(Tail(id))

escapeId(id) == <<Backquote>> \o escapeIdChars(id) \o <<Backquote>>

\* The loop of getOr from entry i on; an entry is a single-key mapping and
\* the loop reads its first key and value.
RECURSIVE getOrLoop(_, _, _, _)
getOrLoop(q, i, wheres, data) ==
  IF i > Len(q)
    THEN [where |-> <<"(">> \o Join(wheres, <<" OR ">>) \o <<")">>, data |-> data]
    ELSE LET key == q[i][1][1]
             operator == OperatorOf(key)
             value == IF operator = "like" THEN "%" \o q[i][1][2] \o "%"
                                           ELSE q[i][1][2]
         IN getOrLoop(q, i + 1,
                      Append(wheres, FieldOf(key)
                                       \o <<" ", OperatorToken(operator), " ", "?">>),
                      Append(data, value))

getOr(q) == getOrLoop(q, 1, <<>>, <<>>)

BangOr == <<"!", "o", "r">>

\* A faulty variant of getWhereLoop: the parameters of an OR group are put in front of
\* the parameters collected so far.
RECURSIVE getWhereLoopOrFirst(_, _, _, _)
getWhereLoopOrFirst(c, i, wheres, data) ==
  IF i > Len(c)
    THEN IF wheres = <<>> THEN <<>>
         ELSE << <<"WHERE ">> \o Join(wheres, <<" AND ">>), data >>
    ELSE LET key == c[i][1]
             operator == OperatorOf(key)
         IN IF key = BangOr
              THEN LET or == getOr(c[i][2]) IN
                     getWhereLoopOrFirst(c, i + 1, Append(wheres, or.where),
                                         or.data \o data)
              ELSE LET value == IF operator = "like" THEN "%" \o c[i][2] \o "%"
                                                     ELSE c[i][2]
                   IN getWhereLoopOrFirst(c, i + 1,
                        Append(wheres, escapeId(FieldOf(key))
                                         \o <<" ", OperatorToken(operator), " ", "?">>),
                        Append(data, value))

\* The loop of getWhere over the criteria from pair i on, and its return:
\* the empty array, or [ 'WHERE ...', data ].
RECURSIVE getWhereLoop(_, _, _, _)
getWhereLoop(c, i, wheres, data) ==
  IF i > Len(c)
    THEN IF wheres = <<>> THEN <<>>
         ELSE << <<"WHERE ">> \o Join(wheres, <<" AND ">>), data >>
    ELSE LET key == c[i][1]
             operator == OperatorOf(key)
         IN IF key = BangOr
              THEN LET or == getOr(c[i][2]) IN
                     getWhereLoop(c, i + 1, Append(wheres, or.where),
                                  data \o or.data)
              ELSE LET value == IF operator = "like" THEN "%" \o c[i][2] \o "%"
                                                     ELSE c[i][2]
                   IN getWhereLoop(c, i + 1,
                        Append(wheres, escapeId(FieldOf(key))
                                         \o <<" ", OperatorToken(operator), " ", "?">>),
                        Append(data, value))

getWhere(q) == getWhereLoop(q.criteria, 1, <<>>, <<>>)

\* The criteria of SpecWhere: up to MaxCrit pairs with distinct keys, among
\* them at most one OR group, of up to MaxOr entries, under the key !or.
PlainPairs ==
  { << <<"a">>, "1" >>, << <<"a">>, "2" >>,
    << <<"a", "!", "e", "q">>, "1" >>,
    << <<"b", "!", "g", "t">>, "2" >>,
    << <<"c", "!", "l", "t">>, "3" >>,
    << <<"d", "!", "g", "t", "e">>, "4" >>,
    << <<"e", "!", "l", "t", "e">>, "5" >>,
    << <<"f", "!", "l", "i", "k", "e">>, "abc" >> }
OrEntries ==
  { << << <<"a">>, "1" >> >>,
    << << <<"b", "!", "g", "t">>, "2" >> >>,
    << << <<"f", "!", "l", "i", "k", "e">>, "x" >> >> }
OrGroups == UNION {[1..n -> OrEntries] : n \in 0..MaxOr}
PlainCriteria(max) ==
  { c \in UNION {[1..n -> PlainPairs] : n \in 0..max} :
      \A i, j \in 1..Len(c) : i # j => c[i][1] # c[j][1] }
CriteriaSet ==
  PlainCriteria(MaxCrit)
    \cup { SubSeq(c, 1, k - 1) \o << <<BangOr, g>> >> \o SubSeq(c, k, Len(c)) :
             <<c, k, g>> \in
               { t \in PlainCriteria(MaxCrit - 1) \X (1..MaxCrit) \X OrGroups :
                   t[2] <= Len(t[1]) + 1 } }

InitWhere ==
  /\ criteria \in CriteriaSet
  /\ where = [called |-> FALSE, ret |-> <<>>]
  /\ connPromise = 0
  /\ handle = <<>>
  /\ ops = <<>>
  /\ fault = NoFault
  /\ shutdown = "open"
  /\ query = <<>>
  /\ stmt = <<>>

GetWhere ==
  /\ ~where.called
  /\ where' = [called |-> TRUE, ret |-> getWhere([criteria |-> criteria])]
  /\ UNCHANGED <<criteria, lifeVars, stmtVars>>

NextWhere == GetWhere

SpecWhere == InitWhere /\ [][NextWhere]_vars

-----------------------------------------------------------------------------
(* Part 2, continued: the statements of insert, load, update, delete, count *)

\* row[f]: the value of field f in a row, undefined when the row has none.
RECURSIVE Lookup(_, _)
Lookup(row, f) ==
  IF row = <<>> THEN Undefined
  ELSE IF row[1][1] = f THEN row[1][2]
  ELSE Lookup(Tail(row), f)

IndexOf(names, f) == \E i \in 1..Len(names) : names[i] = f

\* for (let f in row) if (fieldNames.indexOf(f) === -1) fieldNames.push(f)
RECURSIVE pushMissing(_, _)
pushMissing(fieldNames, row) ==
  IF row = <<>> THEN fieldNames
  ELSE pushMissing(IF IndexOf(fieldNames, row[1][1]) THEN fieldNames
                   ELSE Append(fieldNames, row[1][1]), Tail(row))

\* query.rows.reduce(..., [])
RECURSIVE reduceRows(_, _)
reduceRows(rows, fieldNames) ==
  IF rows = <<>> THEN fieldNames
  ELSE reduceRows(Tail(rows), pushMissing(fieldNames, rows[1]))

\* insert: the statement handed to dbQuery for every row.
insertStatements(q) ==
  LET declared == [i \in 1..Len(q.schema.fields) |-> q.schema.fields[i].name]
      fieldNames == IF Len(declared) # 0 THEN declared ELSE reduceRows(q.rows, <<>>)
      placeholder == [i \in 1..Len(fieldNames) |-> <<"?">>]
      sql == <<"INSERT INTO ">> \o q.schema.name \o <<" (">>
               \o Join(fieldNames, <<",">>) \o <<") VALUES (">>
               \o Join(placeholder, <<",">>) \o <<")">>
  IN [r \in 1..Len(q.rows) |->
        [sql |-> sql,
         params |-> [i \in 1..Len(fieldNames) |-> Lookup(q.rows[r], fieldNames[i])]]]

\* getOrderBy: undefined when there is no sort.
getOrderBy(q) ==
  LET orderBys == [i \in 1..Len(q.sorts) |->
                     escapeId(q.sorts[i][1])
                       \o <<" ", IF q.sorts[i][2] THEN "ASC" ELSE "DESC">>]
  IN IF Len(orderBys) = 0
       THEN [defined |-> FALSE, text |-> <<>>]
       ELSE [defined |-> TRUE, text |-> <<"ORDER BY ">> \o Join(orderBys, <<", ">>)]

\* A faulty variant of pagination: the offset is pushed whenever skip is positive.
paginationOffsetAlways(limit, skip) ==
  (IF limit >= 0 THEN << <<"LIMIT ", ToString(limit)>> >> ELSE <<>>)
    \o (IF skip > 0 THEN << <<"OFFSET ", ToString(skip)>> >> ELSE <<>>)

\* What load pushes for query.limit and query.skip.
pagination(limit, skip) ==
  IF limit >= 0
    THEN << <<"LIMIT ", ToString(limit)>> >>
           \o (IF skip > 0 THEN << <<"OFFSET ", ToString(skip)>> >> ELSE <<>>)
    ELSE <<>>

\* The data of `let [ wheres, data ] = this.getWhere(query)` as execute binds
\* it: nothing when getWhere returned the empty array.
DataOf(w) == IF Len(w) >= 2 THEN w[2] ELSE <<>>

\* load: the statement handed to dbQuery.
loadStatement(q) ==
  LET w == getWhere(q)
      orderBys == getOrderBy(q)
      sqlArr == << <<"SELECT * FROM ">> \o escapeId(q.schema.name) >>
                  \o (IF Len(w) >= 1 THEN <<w[1]>> ELSE <<>>)
                  \o (IF orderBys.defined THEN <<orderBys.text>> ELSE <<>>)
                  \o pagination(q.limit, q.skip)
  IN [sql |-> Join(sqlArr, <<" ">>), params |-> DataOf(w)]

\* delete: the statement handed to dbQuery.
deleteStatement(q) ==
  LET w == getWhere(q)
      sqlArr == << <<"DELETE FROM ">> \o q.schema.name >>
                  \o (IF Len(w) >= 1 THEN <<w[1]>> ELSE <<>>)
  IN [sql |-> Join(sqlArr, <<" ">>), params |-> DataOf(w)]

\* update: `${wheres}` prints undefined when getWhere returned the empty
\* array, and params.concat(undefined) appends undefined as one more value.
updateStatement(q) ==
  LET params == [i \in 1..Len(q.sets) |-> q.sets[i][2]]
      placeholder == [i \in 1..Len(q.sets) |->
                        escapeId(q.sets[i][1]) \o <<" = ", "?">>]
      w == getWhere(q)
  IN [sql |-> <<"UPDATE ">> \o escapeId(q.schema.name) \o <<" SET ">>
                \o Join(placeholder, <<", ">>) \o <<" ">>
                \o (IF Len(w) >= 1 THEN w[1] ELSE <<Undefined>>),
      params |-> IF Len(w) >= 2 THEN params \o w[2] ELSE Append(params, Undefined)]

\* count: the statement it builds before it calls this.getDb(); it reads
\* query.length and query.offset, which are undefined on a descriptor that
\* has none.
countStatement(q, useSkipAndLimit) ==
  LET w == getWhere(q)
      sqlArr == << <<"SELECT count(*) AS ">> \o escapeId(<<"c", "o", "u", "n", "t">>)
                     \o <<" FROM ">> \o q.schema.name >>
                  \o (IF Len(w) >= 1 THEN <<w[1]>> ELSE <<>>)
                  \o (IF useSkipAndLimit /\ "length" \in DOMAIN q /\ q.length >= 0
                        THEN << <<"LIMIT ", ToString(q.length)>> >>
                               \o (IF "offset" \in DOMAIN q /\ q.offset > 0
                                     THEN << <<"OFFSET ", ToString(q.offset)>> >>
                                     ELSE <<>>)
                        ELSE <<>>)
  IN [sql |-> Join(sqlArr, <<" ">>), params |-> DataOf(w)]

\* The query descriptors of SpecStmt.
CriteriaSamples ==
  { <<>>,
    << << <<"a">>, "1" >> >>,
    << << <<"f", "!", "l", "i", "k", "e">>, "abc" >>,
       << BangOr, << << << <<"a">>, "1" >> >>, << << <<"b", "!", "g", "t">>, "2" >> >> >> >>,
       << <<"d", "!", "g", "t", "e">>, "4" >> >>,
    << << BangOr, <<>> >> >> }
SortSamples ==
  { <<>>, << << <<"a">>, TRUE >> >>, << << <<"a">>, FALSE >>, << <<"b">>, TRUE >> >> }
SetSamples ==
  { <<>>, << << <<"a">>, "1" >> >>, << << <<"a">>, "1" >>, << <<"b">>, "2" >> >> }
FieldSamples == { <<>>, << [name |-> <<"x">>], [name |-> <<"y">>] >> }
RowSamples ==
  { <<>>,
    << << << <<"x">>, "1" >>, << <<"y">>, "2" >> >> >>,
    << << << <<"x">>, "1" >>, << <<"y">>, "2" >> >>,
       << << <<"y">>, "3" >>, << <<"z">>, "4" >> >> >> }
Limits == {-2, -1, 0, 1, 10}
Skips == {-1, 0, 1, 5}

Descriptors ==
  [schema : [name : {<<"t">>}, fields : FieldSamples],
   criteria : CriteriaSamples, sorts : SortSamples, sets : SetSamples,
   rows : RowSamples, limit : Limits, skip : Skips]

NoStmt == [op |-> "none", executed |-> FALSE, out |-> <<>>]

InitStmt ==
  /\ query \in Descriptors
  /\ stmt = NoStmt
  /\ connPromise = 0
  /\ handle = <<>>
  /\ ops = <<>>
  /\ fault = NoFault
  /\ shutdown = "open"
  /\ criteria = <<>>
  /\ where = <<>>

InsertStmt ==
  /\ stmt = NoStmt
  /\ stmt' = [op |-> "insert", executed |-> TRUE, out |-> insertStatements(query)]
  /\ UNCHANGED <<query, lifeVars, whereVars>>

LoadStmt ==
  /\ stmt = NoStmt
  /\ stmt' = [op |-> "load", executed |-> TRUE, out |-> <<loadStatement(query)>>]
  /\ UNCHANGED <<query, lifeVars, whereVars>>

UpdateStmt ==
  /\ stmt = NoStmt
  /\ stmt' = [op |-> "update", executed |-> TRUE, out |-> <<updateStatement(query)>>]
  /\ UNCHANGED <<query, lifeVars, whereVars>>

DeleteStmt ==
  /\ stmt = NoStmt
  /\ stmt' = [op |-> "delete", executed |-> TRUE, out |-> <<deleteStatement(query)>>]
  /\ UNCHANGED <<query, lifeVars, whereVars>>

\* count never hands its statement to execute (see count in Part 1).
CountStmt(useSkipAndLimit) ==
  /\ stmt = NoStmt
  /\ stmt' = [op |-> "count", executed |-> FALSE,
              out |-> <<countStatement(query, useSkipAndLimit)>>]
  /\ UNCHANGED <<query, lifeVars, whereVars>>

NextStmt ==
  \/ InsertStmt
  \/ LoadStmt
  \/ UpdateStmt
  \/ DeleteStmt
  \/ \E useSkipAndLimit \in BOOLEAN : CountStmt(useSkipAndLimit)

SpecStmt == InitStmt /\ [][NextStmt]_vars

-----------------------------------------------------------------------------
(* Part 1: the claims about the connection lifecycle, checked under Spec *)

Inserts == {o \in OpIds : ops[o].kind = "insert"}
Pending(o) == ops[o].rows.waiting + ops[o].rows.inflight
Settled(o) == ops[o].rows.ok + ops[o].rows.failed
NonLostCodes == ErrorCodes \ {CONNECTION_LOST}

\* C1: once end() has marked the adapter closed, every later getConnection()
\* call throws 'Connection already ended', also after error events of any
\* class on the old handle.
C1_ClosedStaysClosed ==
  shutdown # "open" => (getConnection.threw /\ getConnection.err = ConnectionEnded)

\* C2: on an open adapter a connection-lost signal on the current handle makes
\* the next getConnection() return a distinct handle, and the handler issues
\* no execute of its own (nothing in flight is re-executed).
C2_LostSignalReplacesHandle ==
  [][\A h \in Handles :
       (connPromise = h /\ WireError(h, CONNECTION_LOST))
         => /\ connPromise' # 0
            /\ connPromise' # h
            /\ \A o \in OpIds : ops'[o].execs = ops[o].execs]_vars

\* C3: every handle, the replacements included, carries the fatal-error
\* observer of the initial handle, so that no signal is left unobserved and
\* none raises a different fault.
C3_EveryHandleObserved ==
  /\ \A h \in Handles : Resolved(h) => handle[h].observer = "onDbError"
  /\ fault.via \notin {"then", "unhandled"}

\* C4: at most one handle is live, every live handle is the one that
\* getConnection() returns, and no handle is live once end() has completed.
C4_AtMostOneLiveHandle ==
  /\ Cardinality({h \in Handles : Live(h)}) <= 1
  /\ \A h \in Handles : Live(h) => connPromise = h
  /\ shutdown = "ended" => \A h \in Handles : ~Live(h)

\* C5 as stated: insert() returns or fails only after all its row executions
\* have settled; when it fails no sibling execution is still pending.
C5_InsertWaitsForAllRows ==
  \A o \in Inserts : ops[o].pc \in {"done", "failed"} => Pending(o) = 0

\* C5 as amended: every row execution is issued before any of them settles;
\* insert() returns only after all rows have succeeded; it fails as soon as
\* the first row fails, whether or not siblings are still pending; no row is
\* executed twice.
C5_InsertFailsFast ==
  \A o \in Inserts :
    /\ Settled(o) > 0 => ops[o].rows.waiting = 0
    /\ ops[o].pc = "done" <=> (ops[o].rows.failed = 0 /\ Pending(o) = 0)
    /\ ops[o].pc = "failed" <=> ops[o].rows.failed > 0
    /\ ops[o].execs = ops[o].rows.inflight + IF ops[o].err = ConnectionEnded
                                               THEN 0 ELSE Settled(o)

\* C5 witness: an insert has failed on its first failing row while the
\* execute of a sibling row is still in flight.
C5_Witness ==
  \E o \in Inserts :
    ops[o].pc = "failed" /\ ops[o].rows.failed = 1 /\ ops[o].rows.inflight > 0

\* C9: count() on an open adapter goes through getConnection() and execute
\* like the other operations, so it fails only when the adapter is closed or
\* its execute fails.
C9_CountFollowsDbQuery ==
  \A o \in OpIds :
    (ops[o].kind = "count" /\ ops[o].pc = "failed")
      => ops[o].err \in {ConnectionEnded, StatementError}

\* C10: an error event whose code is not PROTOCOL_CONNECTION_LOST, delivered
\* to onDbError, re-raises that same error and changes nothing else: no
\* connection is created and getConnection() returns the same handle.
C10_OtherErrorsReraised ==
  [][\A h \in Handles, code \in NonLostCodes :
       (handle[h].observer = "onDbError" /\ WireError(h, code))
         => /\ connPromise' = connPromise
            /\ handle' = handle
            /\ ops' = ops
            /\ fault' = [code |-> code, via |-> "onDbError"]]_vars

\* C10 witness: onDbError has re-raised a non-lost error while handle 1 is
\* current and live.
C10_Witness ==
  /\ fault = [code |-> "ER_LOCK_DEADLOCK", via |-> "onDbError"]
  /\ connPromise = 1
  /\ Live(1)

-----------------------------------------------------------------------------
(* Part 2: the claims about getWhere, checked under SpecWhere *)

\* What a key stands for: its field and its operator (eq when none is given).
C7_Keys ==
  { [key |-> <<"a">>, field |-> "a", op |-> "eq"],
    [key |-> <<"a", "!", "e", "q">>, field |-> "a", op |-> "eq"],
    [key |-> <<"b", "!", "g", "t">>, field |-> "b", op |-> "gt"],
    [key |-> <<"c", "!", "l", "t">>, field |-> "c", op |-> "lt"],
    [key |-> <<"d", "!", "g", "t", "e">>, field |-> "d", op |-> "gte"],
    [key |-> <<"e", "!", "l", "t", "e">>, field |-> "e", op |-> "lte"],
    [key |-> <<"f", "!", "l", "i", "k", "e">>, field |-> "f", op |-> "like"] }
C7_Key(key) == CHOOSE k \in C7_Keys : k.key = key
C7_Token(op) ==
  CASE op = "eq" -> "=" [] op = "gt" -> ">" [] op = "lt" -> "<"
    [] op = "gte" -> ">=" [] op = "lte" -> "<=" [] op = "like" -> "like"
C7_Bound(pair) ==
  IF C7_Key(pair[1]).op = "like" THEN "%" \o pair[2] \o "%" ELSE pair[2]

RECURSIVE C7_JoinText(_, _)
C7_JoinText(texts, sep) ==
  IF texts = <<>> THEN ""
  ELSE IF Len(texts) = 1 THEN texts[1]
  ELSE texts[1] \o sep \o C7_JoinText(Tail(texts), sep)

RECURSIVE C7_Flatten(_)
C7_Flatten(seqs) == IF seqs = <<>> THEN <<>> ELSE seqs[1] \o C7_Flatten(Tail(seqs))

C7_OrText(group) ==
  "(" \o C7_JoinText([i \in 1..Len(group) |->
                        C7_Key(group[i][1][1]).field \o " "
                          \o C7_Token(C7_Key(group[i][1][1]).op) \o " ?"], " OR ")
      \o ")"
C7_ClauseText(pair) ==
  IF pair[1] = BangOr
    THEN C7_OrText(pair[2])
    ELSE Backquote \o C7_Key(pair[1]).field \o Backquote \o " "
           \o C7_Token(C7_Key(pair[1]).op) \o " ?"
C7_Params(pair) ==
  IF pair[1] = BangOr
    THEN [i \in 1..Len(pair[2]) |-> C7_Bound(pair[2][i][1])]
    ELSE <<C7_Bound(pair)>>

Placeholders(rope) == Cardinality({i \in 1..Len(rope) : rope[i] = "?"})

C7_Example ==
  << <<BangOr, << << << <<"a">>, "1" >> >>, << << <<"b", "!", "g", "t">>, "2" >> >> >> >> >>

\* C7: getWhere emits 'WHERE ' followed by one clause per key in iteration
\* order joined by ' AND '; the key !or gives one parenthesised clause of its
\* entries joined by ' OR '; the parameters are the bound values in the same
\* order, the group's parameters at the group's position; eq, gt, lt, gte,
\* lte, like map to =, >, <, >=, <=, like and a like value v is bound as %v%.
\* An empty mapping gives no clause at all.
C7_WhereClause ==
  where.called =>
    /\ criteria = <<>> => where.ret = <<>>
    /\ criteria # <<>> =>
         /\ Len(where.ret) = 2
         /\ Text(where.ret[1]) =
              "WHERE " \o C7_JoinText([i \in 1..Len(criteria) |->
                                         C7_ClauseText(criteria[i])], " AND ")
         /\ where.ret[2] =
              C7_Flatten([i \in 1..Len(criteria) |-> C7_Params(criteria[i])])
         /\ Placeholders(where.ret[1]) = Len(where.ret[2])
    /\ criteria = C7_Example =>
         /\ Text(where.ret[1]) = "WHERE (a = ? OR b > ?)"
         /\ where.ret[2] = <<"1", "2">>

\* C7 witness: getWhere has compiled a like key, then an OR group of two
\* entries, then another key.
C7_Witness ==
  /\ where.called
  /\ Len(criteria) = 3
  /\ criteria[1][1] = <<"f", "!", "l", "i", "k", "e">>
  /\ criteria[2][1] = BangOr
  /\ Len(criteria[2][2]) = 2
  /\ where.ret[2] = <<"%abc%", "2", "%x%", "4">>

-----------------------------------------------------------------------------
(* Part 2: the claims about the statements, checked under SpecStmt *)

FirstIndex(rope, frag) ==
  IF \E i \in 1..Len(rope) : rope[i] = frag
    THEN CHOOSE i \in 1..Len(rope) :
           rope[i] = frag /\ \A j \in 1..(i - 1) : rope[j] # frag
    ELSE 0

\* C6: in every statement that insert, load, update and delete hand to
\* execute, the parameters are as many as the placeholders, and for update
\* they are the SET values in sets-key order followed by the WHERE
\* parameters, and nothing else.
C6_ParamsMatchPlaceholders ==
  (stmt.op \in {"insert", "load", "update", "delete"}) =>
    /\ \A k \in 1..Len(stmt.out) :
         Placeholders(stmt.out[k].sql) = Len(stmt.out[k].params)
    /\ stmt.op = "update" =>
         stmt.out[1].params =
           [i \in 1..Len(query.sets) |-> query.sets[i][2]] \o DataOf(getWhere(query))

\* C8: load emits LIMIT <limit> exactly when limit >= 0 and OFFSET <skip>
\* exactly when limit >= 0 and skip > 0, after the WHERE and ORDER BY parts,
\* LIMIT before OFFSET, at the end of the statement.
C8_Pagination ==
  stmt.op = "load" =>
    LET sql == stmt.out[1].sql
        n == Len(sql)
        iW == FirstIndex(sql, "WHERE ")
        iB == FirstIndex(sql, "ORDER BY ")
        iL == FirstIndex(sql, "LIMIT ")
        iO == FirstIndex(sql, "OFFSET ")
    IN /\ iL # 0 <=> query.limit >= 0
       /\ iO # 0 <=> (query.limit >= 0 /\ query.skip > 0)
       /\ iL # 0 => /\ sql[iL + 1] = ToString(query.limit)
                    /\ sql[iL - 1] = " "
                    /\ iW < iL /\ iB < iL
                    /\ (iW # 0) = (query.criteria # <<>>)
                    /\ (iB # 0) = (query.sorts # <<>>)
                    /\ IF iO = 0 THEN iL + 1 = n
                       ELSE /\ iO = iL + 3
                            /\ sql[iO - 1] = " "
                            /\ sql[iO + 1] = ToString(query.skip)
                            /\ iO + 1 = n
       /\ (query.limit = 10 /\ query.skip = 5) =>
            Text(SubSeq(sql, iL - 1, n)) = " LIMIT 10 OFFSET 5"
       /\ (query.limit = 10 /\ query.skip = 0) =>
            Text(SubSeq(sql, iL - 1, n)) = " LIMIT 10"

\* C8 witness: load has built a statement with a WHERE part, an ORDER BY part,
\* a limit and an offset.
C8_Witness ==
  /\ stmt.op = "load"
  /\ query.limit = 10
  /\ query.skip = 5
  /\ query.criteria # <<>>
  /\ query.sorts # <<>>
  /\ FirstIndex(stmt.out[1].sql, "OFFSET ") # 0

====
